---- MODULE Spec2Model ----
\* Offline client of substrate-subxt: the RPC-response loader (util::rpc_to_bytes)
\* and the OfflineClient operations (encode, create_unsigned, create_signed,
\* create_signed_encoded) with a signer whose sign step may suspend.
EXTENDS Integers, Sequences, FiniteSets, Bags, TLC

\* ------------------------------------------------------------------ bounds
MaxLen == 6        \* longest `result` string of a loaded document, in characters
HashLen == 2       \* width of T::Hash in bytes
MaxNonce == 1      \* largest nonce the caller sets
MaxClients == 2    \* the client and its clones
MaxOps == 2        \* signing operations suspended at the signer at once

\* ------------------------------------------------------------------ strings and hex
\* A string is a sequence of characters; "w2" stands for one character whose
\* UTF-8 encoding is two bytes, every other character is one byte.
Wide == "w2"
Chars == {"0", "x", "a", "A", Wide}
LowerDigits == <<"0","1","2","3","4","5","6","7","8","9","a","b","c","d","e","f">>
UpperDigits == <<"0","1","2","3","4","5","6","7","8","9","A","B","C","D","E","F">>

Width(c) == IF c = Wide THEN 2 ELSE 1

RECURSIVE ByteLen(_)
ByteLen(s) == IF s = <<>> THEN 0 ELSE Width(Head(s)) + ByteLen(Tail(s))

\* value of one hex digit, either case; -1 for any other character
HexVal(c) ==
  IF \E i \in 1..16 : LowerDigits[i] = c
    THEN (CHOOSE i \in 1..16 : LowerDigits[i] = c) - 1
    ELSE IF \E i \in 1..16 : UpperDigits[i] = c
      THEN (CHOOSE i \in 1..16 : UpperDigits[i] = c) - 1
      ELSE -1

Ok(v) == [ok |-> TRUE, err |-> "", val |-> v]
Err(e) == [ok |-> FALSE, err |-> e, val |-> <<>>]

\* hex::decode: an odd number of bytes or a non-hex byte is an error
HexDecode(s) ==
  IF ByteLen(s) % 2 # 0 THEN Err("MalformedHex")
  ELSE IF \E i \in 1..Len(s) : HexVal(s[i]) < 0 THEN Err("MalformedHex")
  ELSE Ok([i \in 1..(Len(s) \div 2) |-> 16 * HexVal(s[2*i - 1]) + HexVal(s[2*i])])

\* hex::encode: two lowercase digits per byte
RECURSIVE HexEncode(_)
HexEncode(bytes) ==
  IF bytes = <<>> THEN <<>>
  ELSE <<LowerDigits[(Head(bytes) \div 16) + 1], LowerDigits[(Head(bytes) % 16) + 1]>>
         \o HexEncode(Tail(bytes))

\* format!("{}{}", "0x", hex::encode(bytes))
HexRender(bytes) == <<"0", "x">> \o HexEncode(bytes)

\* &s[n..] on a str: panics when n is past the end or inside a character
SliceFromOneByte(s, n) ==
  IF \E k \in 0..Len(s) : ByteLen(SubSeq(s, 1, k)) = 1
    THEN [panic |-> FALSE,
          str |-> SubSeq(s, (CHOOSE k \in 0..Len(s) : ByteLen(SubSeq(s, 1, k)) = 1) + 1, Len(s))]
    ELSE [panic |-> TRUE, str |-> <<>>]

SliceFrom(s, n) ==
  IF \E k \in 0..Len(s) : ByteLen(SubSeq(s, 1, k)) = n
    THEN [panic |-> FALSE,
          str |-> SubSeq(s, (CHOOSE k \in 0..Len(s) : ByteLen(SubSeq(s, 1, k)) = n) + 1, Len(s))]
    ELSE [panic |-> TRUE, str |-> <<>>]

\* ------------------------------------------------------------------ state
VARIABLES
  file,         \* the stored document handed to rpc_to_bytes
  loaded,       \* how rpc_to_bytes ended
  opts,         \* the OfflineClientOptions given to build
  built,        \* "none" before build, then "ok" or build's error
  clients,      \* the client (index 1) and its clones, each with its four fields
  nonce,        \* the signer's nonce: None or a number
  callerNonce,  \* the value the caller last gave to set_nonce
  inflight,     \* bag of signing operations suspended at the signer's sign
  last,         \* the operation that finished last, with its result
  hexSeen       \* every hex string create_signed_encoded has returned, with its inputs

vars == <<file, loaded, opts, built, clients, nonce, callerNonce, inflight, last, hexSeen>>

\* Option<T::Index>: None, or Some(n)
None == <<>>
Some(n) == <<n>>
unwrap(o) == o[1]

\* ------------------------------------------------------------------ util (input loader)
Strings == UNION {[1..n -> Chars] : n \in 0..MaxLen}

\* What the file holds. "envelope" is {"jsonrpc":..,"result":"<result>","id":..},
\* "envelope_no_id" the same without id; the other shapes carry no result string.
StringShapes == {"envelope", "envelope_no_id"}
OtherShapes == {"garbage", "no_jsonrpc", "no_result", "result_number"}
Files ==
  [readable : {TRUE}, shape : StringShapes, result : Strings]
    \cup [readable : {TRUE}, shape : OtherShapes, result : {<<>>}]
    \cup [readable : {FALSE}, shape : {"envelope"}, result : {<<>>}]

\* file_to_string: File::open and read_to_string
file_to_string(f) == IF f.readable THEN Ok(f) ELSE Err("Io")

\* serde_json::from_str::<RpcRes<String>>: jsonrpc and result must be present
\* strings; a field the struct does not name (id) is neither required nor refused
ParseRpcRes(doc) ==
  IF doc.shape \in StringShapes THEN Ok(doc.result) ELSE Err("MalformedJson")

NotLoaded == [state |-> "none", err |-> "", bytes |-> <<>>]
LoadedBytes(b) == [state |-> "bytes", err |-> "", bytes |-> b]
LoadedError(e) == [state |-> "error", err |-> e, bytes |-> <<>>]
LoadedPanic == [state |-> "panic", err |-> "", bytes |-> <<>>]

\* util::rpc_to_bytes
RpcToBytes(f) ==
  LET contents == file_to_string(f) IN
  IF ~contents.ok THEN LoadedError(contents.err)
  ELSE LET rpc_response == ParseRpcRes(contents.val) IN
    IF ~rpc_response.ok THEN LoadedError(rpc_response.err)
    ELSE LET hex == SliceFrom(rpc_response.val, 2) IN
      IF hex.panic THEN LoadedPanic
      ELSE LET bytes == HexDecode(hex.str) IN
        IF ~bytes.ok THEN LoadedError(bytes.err)
        ELSE LoadedBytes(bytes.val)

rpc_to_bytes ==
  /\ loaded.state = "none"
  /\ loaded' = RpcToBytes(file)
  /\ UNCHANGED <<file, opts, built, clients, nonce, callerNonce, inflight, last, hexSeen>>

\* ------------------------------------------------------------------ binary codec
\* compact integer: single-byte mode below 64, two-byte mode below 16384
Compact(n) ==
  IF n < 64 THEN <<4 * n>>
  ELSE <<(4 * n + 1) % 256, ((4 * n + 1) \div 256) % 256>>

\* u32, little endian
U32LE(n) == <<n % 256, (n \div 256) % 256, (n \div 65536) % 256, (n \div 16777216) % 256>>

RECURSIVE SumBytes(_)
SumBytes(b) == IF b = <<>> THEN 0 ELSE Head(b) + SumBytes(Tail(b))

\* ------------------------------------------------------------------ metadata
\* The prefixed metadata blob: a magic word, a format version and the modules,
\* each with its index and the names of its calls in index order.
Modules == <<[name |-> "System", index |-> 0, calls |-> <<"remark">>],
             [name |-> "Balances", index |-> 4, calls |-> <<"transfer", "set_balance">>]>>
GoodBlob == [magic |-> "meta", version |-> 12, modules |-> Modules]
BadMagicBlob == [magic |-> "junk", version |-> 12, modules |-> Modules]
OldBlob == [magic |-> "meta", version |-> 3, modules |-> Modules]

\* Decode::decode::<RuntimeMetadataPrefixed> then try_into::<Metadata>: the index
\* module name -> {index, calls: call name -> call index}
DecodeMetadata(blob) ==
  IF blob.magic # "meta" THEN Err("SchemaDecodeError")
  ELSE IF blob.version # 12 THEN Err("UnsupportedSchemaVersion")
  ELSE Ok([name \in {blob.modules[i].name : i \in 1..Len(blob.modules)} |->
             LET m == blob.modules[CHOOSE i \in 1..Len(blob.modules) : blob.modules[i].name = name]
             IN [index |-> m.index,
                 calls |-> [f \in {m.calls[j] : j \in 1..Len(m.calls)} |->
                              (CHOOSE j \in 1..Len(m.calls) : m.calls[j] = f) - 1]]])

\* Decode::decode::<T::Hash>: the first HashLen bytes; fewer is an error, more are ignored
DecodeHash(bytes) ==
  IF Len(bytes) < HashLen THEN Err("SchemaDecodeError") ELSE Ok(SubSeq(bytes, 1, HashLen))

\* Metadata::module_with_calls
module_with_calls(metadata, name) ==
  IF name \in DOMAIN metadata THEN Ok(metadata[name]) ELSE Err("UnknownModule")

\* ModuleWithCalls::call: module index, call index, then the encoded arguments
module_call(module, function, args) ==
  IF function \in DOMAIN module.calls
    THEN Ok(<<module.index, module.calls[function]>> \o args)
    ELSE Err("UnknownCall")

\* ------------------------------------------------------------------ extrinsic and signer
AliceId == <<212>>

\* extrinsic::create_unsigned
extrinsic_create_unsigned(call) ==
  [signed |-> FALSE, address |-> <<>>, signature |-> <<>>, extra |-> <<>>, call |-> call]

\* signed extra: nonce, era (immortal: one zero byte), tip (0)
SignedExtra(account_nonce) == Compact(account_nonce) \o <<0>> \o Compact(0)

\* additional signed: spec version, transaction version, genesis id
AdditionalSigned(runtime_version, genesis_hash) ==
  U32LE(runtime_version.spec_version) \o U32LE(runtime_version.transaction_version)
    \o genesis_hash

\* extrinsic::create_signed up to the signer: the payload handed to sign
SignedPayload(runtime_version, genesis_hash, account_nonce, call) ==
  call \o SignedExtra(account_nonce) \o AdditionalSigned(runtime_version, genesis_hash)

\* Signer::sign of a key pair: a fixed function of the payload
Signature(payload) == <<SumBytes(payload) % 256, Len(payload) % 256>>

\* the signed extrinsic the signer hands back
SignedExtrinsic(call, account_nonce, signature) ==
  [signed |-> TRUE, address |-> AliceId, signature |-> signature,
   extra |-> SignedExtra(account_nonce), call |-> call]

\* UncheckedExtrinsic::encode: length prefix, version byte, signature section if
\* signed, call
EncodeExtrinsic(xt) ==
  LET body == IF xt.signed
                THEN <<132>> \o xt.address \o xt.signature \o xt.extra \o xt.call
                ELSE <<4>> \o xt.call
  IN Compact(Len(body)) \o body

\* ------------------------------------------------------------------ inputs
RV1 == [spec_name |-> "kusama", spec_version |-> 9, transaction_version |-> 1, impl_version |-> 0]
RV2 == [spec_name |-> "kusama", spec_version |-> 258, transaction_version |-> 2, impl_version |-> 0]
DefaultVersion == [spec_name |-> "", spec_version |-> 0, transaction_version |-> 0, impl_version |-> 0]
Props == [ss58_format |-> 42, token_decimals |-> 12, token_symbol |-> "UNIT"]

GenesisInputs == {[i \in 1..(HashLen + 1) |-> i],     \* a hash and one byte more
                  [i \in 1..(HashLen - 1) |-> i]}     \* one byte short of a hash
OptionsSet == [genesis_hash : GenesisInputs,
               metadata : {GoodBlob, BadMagicBlob, OldBlob},
               properties : {Props},
               runtime_version : {RV1, RV2}]

\* the calls a caller passes: C::MODULE, C::FUNCTION and the encoded arguments
Calls == [module : {"Balances", "DoesNotExist"},
          function : {"transfer", "remark"},
          args : {<<7>> \o Compact(12345)}]
NoCall == [module |-> "", function |-> "", args |-> <<>>]
Nonces == 0..MaxNonce

\* ------------------------------------------------------------------ OfflineClient
\* OfflineClientBuilder::build
Build(o) ==
  LET metadata == DecodeMetadata(o.metadata) IN
  IF ~metadata.ok THEN metadata
  ELSE LET genesis_hash == DecodeHash(o.genesis_hash) IN
    IF ~genesis_hash.ok THEN genesis_hash
    ELSE Ok([genesis_hash |-> genesis_hash.val,
             metadata |-> metadata.val,
             properties |-> o.properties,
             runtime_version |-> o.runtime_version])

Clone_DefaultVersion(self) ==
  [genesis_hash |-> self.genesis_hash,
   metadata |-> self.metadata,
   properties |-> self.properties,
   runtime_version |-> DefaultVersion]

\* impl Clone for OfflineClient
Clone(self) ==
  [genesis_hash |-> self.genesis_hash,
   metadata |-> self.metadata,
   properties |-> self.properties,
   runtime_version |-> self.runtime_version]

Encode_CollapseErrors(self, call) ==
  LET module == module_with_calls(self.metadata, call.module) IN
  IF ~module.ok THEN Err("UnknownCall")
  ELSE module_call(module.val, call.function, call.args)

\* OfflineClient::encode
Encode(self, call) ==
  LET module == module_with_calls(self.metadata, call.module) IN
  IF ~module.ok THEN module
  ELSE module_call(module.val, call.function, call.args)

CreateUnsigned_SwallowError(self, call) ==
  LET encoded == Encode(self, call) IN
  Ok(extrinsic_create_unsigned(encoded.val))

\* OfflineClient::create_unsigned
CreateUnsigned(self, call) ==
  LET encoded == Encode(self, call) IN
  IF ~encoded.ok THEN encoded
  ELSE Ok(extrinsic_create_unsigned(encoded.val))

Finished(steps, result) ==
  [pending |-> FALSE, steps |-> steps, result |-> result,
   account_nonce |-> 0, call |-> <<>>, payload |-> <<>>]
AtSigner(steps, account_nonce, call, payload) ==
  [pending |-> TRUE, steps |-> steps, result |-> Err(""),
   account_nonce |-> account_nonce, call |-> call, payload |-> payload]

CreateSignedSync_EncodeFirst(self, signer_nonce, call) ==
  LET encoded == Encode(self, call) IN
  IF ~encoded.ok THEN Finished(<<"encode">>, encoded)
  ELSE IF signer_nonce = None
    THEN Finished(<<"encode", "nonce_check">>, Err("MissingNonce"))
    ELSE AtSigner(<<"encode", "nonce_check", "sign">>, unwrap(signer_nonce), encoded.val,
                  SignedPayload(self.runtime_version, self.genesis_hash, unwrap(signer_nonce),
                                encoded.val))

CreateSignedSync_DefaultNonce(self, signer_nonce, call) ==
  LET account_nonce == IF signer_nonce = None THEN 0 ELSE unwrap(signer_nonce)
      encoded == Encode(self, call) IN
  IF ~encoded.ok THEN Finished(<<"nonce_check", "encode">>, encoded)
  ELSE AtSigner(<<"nonce_check", "encode", "sign">>, account_nonce, encoded.val,
                SignedPayload(self.runtime_version, self.genesis_hash, account_nonce, encoded.val))

CreateSignedSync_StaleNonce(self, signer_nonce, call) ==
  IF signer_nonce = None THEN Finished(<<"nonce_check">>, Err("MissingNonce"))
  ELSE LET encoded == Encode(self, call) IN
    IF ~encoded.ok THEN Finished(<<"nonce_check", "encode">>, encoded)
    ELSE AtSigner(<<"nonce_check", "encode", "sign">>, unwrap(signer_nonce), encoded.val,
                  SignedPayload(self.runtime_version, self.genesis_hash, 0, encoded.val))

\* OfflineClient::create_signed up to the await of the signer: the nonce check,
\* the call encoding, and the payload handed to sign
CreateSignedSync(self, signer_nonce, call) ==
  IF signer_nonce = None THEN Finished(<<"nonce_check">>, Err("MissingNonce"))
  ELSE LET account_nonce == unwrap(signer_nonce)
           encoded == Encode(self, call) IN
    IF ~encoded.ok THEN Finished(<<"nonce_check", "encode">>, encoded)
    ELSE AtSigner(<<"nonce_check", "encode", "sign">>, account_nonce, encoded.val,
                  SignedPayload(self.runtime_version, self.genesis_hash, account_nonce, encoded.val))

\* create_signed after the await: the signer's error, or the signed extrinsic
CreateSignedResume(op, signed_ok) ==
  IF ~signed_ok THEN Err("SigningFailed")
  ELSE Ok(SignedExtrinsic(op.call_enc, op.account_nonce, Signature(op.payload)))

\* create_signed_encoded after create_signed: the error, or "0x" + hex of the
\* encoded extrinsic
CreateSignedEncodedResume(op, signed_ok) ==
  LET signed_extrinsic == CreateSignedResume(op, signed_ok) IN
  IF ~signed_extrinsic.ok THEN signed_extrinsic
  ELSE Ok(HexRender(EncodeExtrinsic(signed_extrinsic.val)))

NonceAfterSigned_Take(n) == None
NonceAfterSigned_Increment(n) == IF n = None THEN None ELSE Some(unwrap(n) + 1)

\* the signer is borrowed immutably (&dyn Signer): its nonce after an operation
\* that used it
NonceAfterSigned(n) == n

\* ------------------------------------------------------------------ actions
NoOp == [kind |-> "none", call |-> NoCall, nonce |-> None,
         steps |-> <<>>, result |-> Err("")]
SignedKinds == {"create_signed", "create_signed_encoded"}
ClientIds == 1..Len(clients)

\* OfflineClientBuilder::build(opts)
build ==
  /\ built = "none"
  /\ LET r == Build(opts) IN
       /\ built' = IF r.ok THEN "ok" ELSE r.err
       /\ clients' = IF r.ok THEN <<r.val>> ELSE <<>>
  /\ UNCHANGED <<file, loaded, opts, nonce, callerNonce, inflight, last, hexSeen>>

\* client.clone()
clone(c) ==
  /\ Len(clients) < MaxClients
  /\ clients' = Append(clients, Clone(clients[c]))
  /\ UNCHANGED <<file, loaded, opts, built, nonce, callerNonce, inflight, last, hexSeen>>

\* signer.set_nonce(n) by the caller; it needs the signer exclusively (&mut), so
\* no operation that borrowed the signer is still suspended
set_nonce(n) ==
  /\ built = "ok"
  /\ inflight = EmptyBag
  /\ nonce' = Some(n)
  /\ callerNonce' = Some(n)
  /\ UNCHANGED <<file, loaded, opts, built, clients, inflight, last, hexSeen>>

\* client.encode(call)
encode(c, call) ==
  /\ last' = [kind |-> "encode", call |-> call, nonce |-> None,
              steps |-> <<"encode">>, result |-> Encode(clients[c], call)]
  /\ UNCHANGED <<file, loaded, opts, built, clients, nonce, callerNonce, inflight, hexSeen>>

\* client.create_unsigned(call)
create_unsigned(c, call) ==
  /\ last' = [kind |-> "create_unsigned", call |-> call, nonce |-> None,
              steps |-> <<"encode">>, result |-> CreateUnsigned(clients[c], call)]
  /\ UNCHANGED <<file, loaded, opts, built, clients, nonce, callerNonce, inflight, hexSeen>>

\* client.create_signed(call, &signer) and client.create_signed_encoded(call,
\* &signer), polled up to the signer: an error ends the operation, otherwise it
\* is suspended at sign with the payload it handed over
create_signed_begin(kind, c, call) ==
  LET r == CreateSignedSync(clients[c], nonce, call) IN
  /\ r.pending => BagCardinality(inflight) < MaxOps
  /\ IF r.pending
       THEN /\ inflight' = inflight (+) SetToBag({[kind |-> kind, call |-> call,
                                                   nonce |-> nonce, steps |-> r.steps,
                                                   genesis_hash |-> clients[c].genesis_hash,
                                                   runtime_version |-> clients[c].runtime_version,
                                                   account_nonce |-> r.account_nonce,
                                                   call_enc |-> r.call, payload |-> r.payload]})
            /\ UNCHANGED last
       ELSE /\ last' = [kind |-> kind, call |-> call, nonce |-> nonce,
                        steps |-> r.steps, result |-> r.result]
            /\ UNCHANGED inflight
  /\ UNCHANGED <<file, loaded, opts, built, clients, nonce, callerNonce, hexSeen>>

\* the signer answers a suspended operation, with a signature or with an error,
\* and the operation runs to its end
sign_done(op, signed_ok) ==
  LET result == IF op.kind = "create_signed_encoded"
                  THEN CreateSignedEncodedResume(op, signed_ok)
                  ELSE CreateSignedResume(op, signed_ok)
  IN
  /\ inflight' = inflight (-) SetToBag({op})
  /\ last' = [kind |-> op.kind, call |-> op.call, nonce |-> op.nonce,
              steps |-> IF signed_ok THEN Append(op.steps, "assemble") ELSE op.steps,
              result |-> result]
  /\ nonce' = IF signed_ok THEN NonceAfterSigned(nonce) ELSE nonce
  /\ hexSeen' = IF op.kind = "create_signed_encoded" /\ result.ok
                  THEN hexSeen \cup {[genesis_hash |-> op.genesis_hash,
                                      runtime_version |-> op.runtime_version,
                                      call |-> op.call, nonce |-> callerNonce,
                                      hex |-> result.val]}
                  ELSE hexSeen
  /\ UNCHANGED <<file, loaded, opts, built, clients, callerNonce>>

\* ------------------------------------------------------------------ specifications
DefaultFile == [readable |-> FALSE, shape |-> "envelope", result |-> <<>>]
DefaultOptions == [genesis_hash |-> [i \in 1..(HashLen + 1) |-> i], metadata |-> GoodBlob,
                   properties |-> Props, runtime_version |-> RV1]

ClientStart ==
  /\ built = "none"
  /\ clients = <<>>
  /\ nonce = None
  /\ callerNonce = None
  /\ inflight = EmptyBag
  /\ last = NoOp
  /\ hexSeen = {}

Init ==
  /\ file = DefaultFile
  /\ loaded = NotLoaded
  /\ opts \in OptionsSet
  /\ ClientStart

Next ==
  \/ build
  \/ \E c \in ClientIds : clone(c)
  \/ \E n \in Nonces : set_nonce(n)
  \/ \E c \in ClientIds, call \in Calls : encode(c, call)
  \/ \E c \in ClientIds, call \in Calls : create_unsigned(c, call)
  \/ \E kind \in SignedKinds, c \in ClientIds, call \in Calls : create_signed_begin(kind, c, call)
  \/ \E op \in BagToSet(inflight), signed_ok \in BOOLEAN : sign_done(op, signed_ok)

Spec == Init /\ [][Next]_vars

InitLoader ==
  /\ file \in Files
  /\ loaded = NotLoaded
  /\ opts = DefaultOptions
  /\ ClientStart

NextLoader == rpc_to_bytes

SpecLoader == InitLoader /\ [][NextLoader]_vars

\* ------------------------------------------------------------------ claims
Range(f) == {f[i] : i \in DOMAIN f}
IsPrefix(a, b) == Len(a) <= Len(b) /\ a = SubSeq(b, 1, Len(a))
InSchema(call) ==
  /\ built = "ok"
  /\ call.module \in DOMAIN clients[1].metadata
  /\ call.function \in DOMAIN clients[1].metadata[call.module].calls
\* the encoded call as the schema given to build lays it out
ExpectedCall(call) ==
  <<clients[1].metadata[call.module].index,
    clients[1].metadata[call.module].calls[call.function]>> \o call.args
StepOrder == <<"nonce_check", "encode", "sign", "assemble">>

\* C1: the bytes handed to the signer's sign are exactly encoded call ++ signed
\* extra (nonce, era, tip) ++ additional signed (spec version, transaction
\* version, genesis id), with the signer's configured nonce and the genesis id
\* and runtime version the client got at construction.
C1_SignedPayloadExact ==
  \A op \in BagToSet(inflight) :
    /\ nonce # None
    /\ op.payload =
         ExpectedCall(op.call)
           \o Compact(unwrap(nonce)) \o <<0>> \o Compact(0)
           \o U32LE(opts.runtime_version.spec_version)
           \o U32LE(opts.runtime_version.transaction_version)
           \o SubSeq(opts.genesis_hash, 1, HashLen)

C1_Witness ==
  \E op \in BagToSet(inflight) :
    /\ nonce = Some(1)
    /\ op.kind = "create_signed"
    /\ Len(op.payload) > Len(op.call_enc)

\* C2: create_signed and create_signed_encoded with an absent nonce fail with
\* MissingNonce and hand nothing to the signer: the finished operation never
\* reached sign, and no sign request is pending while the nonce is absent.
C2_MissingNonceNoSign ==
  /\ (last.kind \in SignedKinds /\ last.nonce = None) =>
       (last.result = Err("MissingNonce") /\ "sign" \notin Range(last.steps))
  /\ nonce = None => inflight = EmptyBag

C2_Witness ==
  /\ last.kind = "create_signed_encoded"
  /\ last.nonce = None
  /\ InSchema(last.call)
  /\ last.result.err = "MissingNonce"

\* C3: a call whose module is not in the schema fails with UnknownModule, never
\* UnknownCall; UnknownCall only when the module exists and the call name is
\* absent from it; these are the only failures of the call lookup.
C3_UnknownModuleNotCall ==
  (last.steps # <<>> /\ last.steps[Len(last.steps)] = "encode") =>
    /\ last.call.module \notin DOMAIN clients[1].metadata =>
         last.result = Err("UnknownModule")
    /\ (~last.result.ok /\ last.result.err = "UnknownCall") =>
         /\ last.call.module \in DOMAIN clients[1].metadata
         /\ last.call.function \notin DOMAIN clients[1].metadata[last.call.module].calls
    /\ ~last.result.ok => last.result.err \in {"UnknownModule", "UnknownCall"}
    /\ last.result.ok <=> InSchema(last.call)

C3_Witness ==
  /\ last.kind = "encode"
  /\ last.call.module = "DoesNotExist"
  /\ last.call.function = "transfer"
  /\ last.result = Err("UnknownModule")

\* C4: no operation changes the signer's nonce: it is always the value the
\* caller last set, and every signing in progress uses that value.
C4_NonceNeverAutoIncremented ==
  /\ nonce = callerNonce
  /\ \A op \in BagToSet(inflight) : Some(op.account_nonce) = callerNonce

C4_Witness ==
  /\ nonce = Some(0)
  /\ hexSeen # {}
  /\ last.kind = "create_signed"
  /\ last.result.ok
  /\ inflight # EmptyBag

\* C5: create_signed_encoded is deterministic: any two invocations with the same
\* client fields, call and caller-set nonce return the same hex string, whatever
\* ran in between, and one still suspended at the signer will return it too.
SameInputs(a, b) ==
  /\ a.genesis_hash = b.genesis_hash
  /\ a.runtime_version = b.runtime_version
  /\ a.call = b.call
  /\ a.nonce = b.nonce
C5_Deterministic ==
  /\ \A a \in hexSeen, b \in hexSeen : SameInputs(a, b) => a.hex = b.hex
  /\ \A a \in hexSeen, op \in BagToSet(inflight) :
       (op.kind = "create_signed_encoded" /\ SameInputs(a, [op EXCEPT !.nonce = callerNonce])) =>
         CreateSignedEncodedResume(op, TRUE) = Ok(a.hex)

C5_Witness ==
  /\ last.kind = "create_signed_encoded"
  /\ last.result.ok
  /\ \E a \in hexSeen : a.hex = last.result.val /\ a.nonce = callerNonce
  /\ \E op \in BagToSet(inflight) :
       /\ op.kind = "create_signed_encoded"
       /\ op.call = last.call
       /\ op.nonce = last.nonce

\* the `result` strings of the loader's claims
HasPrefix(s) == Len(s) >= 2 /\ s[1] = "0" /\ s[2] = "x"
AfterPrefix(s) == SubSeq(s, 3, Len(s))
ValidHexResult(s) == HasPrefix(s) /\ HexDecode(AfterPrefix(s)).ok
IsUpperDigit(c) == \E i \in 11..16 : UpperDigits[i] = c
LowerCased(s) ==
  [i \in 1..Len(s) |->
     IF IsUpperDigit(s[i])
       THEN LowerDigits[CHOOSE j \in 11..16 : UpperDigits[j] = s[i]]
       ELSE s[i]]
ValidDocument == file.readable /\ file.shape = "envelope" /\ ValidHexResult(file.result)

\* C6 as stated: for a valid document with a 0x-prefixed hex result, rpc_to_bytes
\* returns the bytes of the hex after the prefix, and "0x" + hex of those bytes
\* is the original result string.
C6_RoundTripExact ==
  (loaded.state # "none" /\ ValidDocument) =>
    /\ loaded.state = "bytes"
    /\ loaded.bytes = HexDecode(AfterPrefix(file.result)).val
    /\ HexRender(loaded.bytes) = file.result

\* C6 as amended: for a valid document with a 0x-prefixed hex result,
\* rpc_to_bytes returns the bytes of the hex after the prefix, one byte per two
\* digits, and "0x" + hex of those bytes is the original result string with its
\* digits A-F lower-cased: the original itself when it has no upper-case digit.
C6_RoundTripLowerCased ==
  (loaded.state # "none" /\ ValidDocument) =>
    /\ loaded.state = "bytes"
    /\ loaded.bytes = HexDecode(AfterPrefix(file.result)).val
    /\ 2 * Len(loaded.bytes) + 2 = Len(file.result)
    /\ HexRender(loaded.bytes) = LowerCased(file.result)
    /\ (\A i \in 1..Len(file.result) : ~IsUpperDigit(file.result[i])) =>
         HexRender(loaded.bytes) = file.result

C6_Witness ==
  /\ ValidDocument
  /\ loaded.state = "bytes"
  /\ Len(loaded.bytes) = 2
  /\ \E i \in 1..Len(file.result) : file.result[i] = "A"
  /\ \E i \in 3..Len(file.result) : file.result[i] = "a"

\* C7: rpc_to_bytes returns bytes only for a readable JSON-RPC envelope whose
\* result is the 0x prefix followed by valid hex; every other input ends with an
\* error (Io, MalformedJson, MalformedHex), never with an abort or with bytes.
C7_ErrorNeverAbort ==
  loaded.state # "none" =>
    /\ loaded.state # "panic"
    /\ loaded.state = "bytes" <=>
         (file.readable /\ file.shape \in StringShapes /\ ValidHexResult(file.result))
    /\ ~file.readable => loaded = LoadedError("Io")
    /\ (file.readable /\ file.shape \notin StringShapes) => loaded = LoadedError("MalformedJson")
    /\ (file.readable /\ file.shape \in StringShapes /\ ~ValidHexResult(file.result)) =>
         loaded = LoadedError("MalformedHex")

\* C8 as stated: create_unsigned always succeeds, with an extrinsic that wraps
\* the encoded call and has no signature section.
C8_UnsignedAlwaysSucceeds ==
  last.kind = "create_unsigned" =>
    /\ last.result.ok
    /\ ~last.result.val.signed
    /\ last.result.val.signature = <<>>

\* C8 as amended: create_unsigned succeeds exactly when the call's module and
\* call name are in the schema, and then returns an extrinsic that wraps the
\* encoded call with no signature section; otherwise it fails with UnknownModule
\* or UnknownCall. Either way it never reaches the signer.
C8_UnsignedSucceedsIffEncodes ==
  last.kind = "create_unsigned" =>
    /\ "sign" \notin Range(last.steps)
    /\ IF InSchema(last.call)
         THEN /\ last.result.ok
              /\ ~last.result.val.signed
              /\ last.result.val.signature = <<>>
              /\ last.result.val.address = <<>>
              /\ last.result.val.call = ExpectedCall(last.call)
         ELSE /\ ~last.result.ok
              /\ last.result.err \in {"UnknownModule", "UnknownCall"}

C8_Witness ==
  /\ last.kind = "create_unsigned"
  /\ last.result.ok
  /\ last.result.val.call = <<4, 0>> \o last.call.args

\* C9: one create_signed runs nonce check, call encoding, sign, assembly in that
\* order; an absent nonce ends it with MissingNonce before any encoding, sign is
\* reached at most once and only after the call encoded, and the first failing
\* step's error is the result, with no later step and no retry.
C9_StepOrder ==
  /\ last.kind \in SignedKinds =>
       /\ IsPrefix(last.steps, StepOrder)
       /\ last.nonce = None =>
            (last.steps = <<"nonce_check">> /\ last.result = Err("MissingNonce"))
       /\ "sign" \in Range(last.steps) => (last.nonce # None /\ InSchema(last.call))
       /\ IF last.result.ok
            THEN last.steps = StepOrder
            ELSE \/ Len(last.steps) = 1 /\ last.result.err = "MissingNonce" /\ last.nonce = None
                 \/ /\ Len(last.steps) = 2
                    /\ last.result.err \in {"UnknownModule", "UnknownCall"}
                    /\ ~InSchema(last.call)
                 \/ Len(last.steps) = 3 /\ last.result.err = "SigningFailed"
  /\ \A op \in BagToSet(inflight) :
       /\ op.steps = SubSeq(StepOrder, 1, 3)
       /\ op.nonce # None
       /\ InSchema(op.call)

C9_Witness ==
  /\ last.kind = "create_signed"
  /\ last.nonce = None
  /\ last.call.module = "DoesNotExist"
  /\ last.result = Err("MissingNonce")

\* C10: the client's genesis hash, metadata, properties and runtime version are
\* the values decoded at build in every reachable state, on the client and on
\* every clone, whatever operations ran or are suspended at the signer.
C10_ClientImmutable ==
  /\ built # "ok" => clients = <<>>
  /\ built = "ok" =>
       /\ Len(clients) >= 1
       /\ \A c \in ClientIds :
            /\ clients[c].genesis_hash = SubSeq(opts.genesis_hash, 1, HashLen)
            /\ clients[c].metadata = DecodeMetadata(opts.metadata).val
            /\ clients[c].properties = opts.properties
            /\ clients[c].runtime_version = opts.runtime_version
            /\ clients[c] = clients[1]

C10_Witness ==
  /\ Len(clients) >= 2
  /\ BagCardinality(inflight) >= 2
  /\ last.kind = "create_unsigned"
  /\ hexSeen # {}

====
